---- MODULE Spec2Model ----
(***************************************************************************)
(* A model of main.py: the time-bounded JSON file cache (load_cache,       *)
(* save_cache), the cached fetchers (get_failed_workflow_runs,             *)
(* find_failed_jobs, get_job_logs), the log parser (parse_test_failures)   *)
(* and the aggregation pass (main).                                        *)
(***************************************************************************)
EXTENDS Integers, Sequences, FiniteSets, TLC

VARIABLES
    now,        \* the value time() returns
    cacheDir,   \* TRUE iff the directory CACHE_DIR exists
    files,      \* the two JSON cache files, by file name
    logs,       \* the log files LOGS_DIR/job_<id>.txt, by job id
    call,       \* the latest direct load_cache / save_cache call and its result
    nEnv,       \* number of clock advances and of I/O errors in passes (bounded)
    srv,        \* what the remote API holds: the runs and each run's jobs
    pc,         \* where main is: off, start, loop, page, filter, done; or where
                \* a direct parse_test_failures call is: parse, parsed
    outcome,    \* how the pass ended: running, summary, no_failures, http_error, error
    runs,       \* main: the run list
    idx,        \* main: index in runs of the run being checked
    jobs_cache, \* find_failed_jobs: the job map it loaded
    page,       \* find_failed_jobs: the page to request next
    all_jobs,   \* find_failed_jobs: the jobs accumulated so far
    reqs,       \* the pages find_failed_jobs has requested in the current call
    ret,        \* the latest return of find_failed_jobs: how, what, and whether saved
    job_failure_counts, \* main: the per-job tally
    visited,    \* the runs main has passed to find_failed_jobs, with the results
    failure_data, \* main: the ids of the runs with failed jobs, for the timeline
    heatmap,    \* TRUE iff the pass wrote failure_timeline.png
    test_failure_counts, \* main: the per-record tally of the log scan
    passes,     \* number of passes started (bounded)
    log_content, \* the text given to a direct parse_test_failures call
    failures,   \* the list that call returned
    requests,   \* the requests the pass has sent to the remote API, in order
    fetchedAt,  \* by run id of the persisted job map, when its list was fetched
    logcall,    \* the latest direct get_job_logs call and its result
    procs       \* two concurrent find_failed_jobs calls, by process

storeVars == <<cacheDir, files, logs>>
parserVars == <<log_content, failures>>
callVars == <<logcall, procs>>
passVars == <<srv, pc, outcome, runs, idx, jobs_cache, page, all_jobs, reqs, ret,
              job_failure_counts, visited, failure_data, heatmap,
              test_failure_counts, passes, parserVars, requests, fetchedAt,
              callVars>>
vars == <<now, storeVars, call, nEnv, passVars>>

(***************************************************************************)
(* Program constants.                                                      *)
(***************************************************************************)
CACHE_EXPIRY == 3600

WORKFLOW_CACHE_FILE == "workflow_failures.json"
JOBS_CACHE_FILE == "job_failures.json"
CacheFiles == {WORKFLOW_CACHE_FILE, JOBS_CACHE_FILE}

(***************************************************************************)
(* Bounds of the model.                                                    *)
(***************************************************************************)
MaxEnv == 2
MaxPasses == 2
MaxFullPages == 2
MaxLines == 2

\* The page numbers the model follows the page loop through: one more than
\* any server of finitely many jobs needs.
MaxPage == MaxFullPages + 2

(***************************************************************************)
(* Python values and JSON texts.  Every value is a record of one shape:    *)
(* k is the kind, n the number of an int, s the text of a str, items the   *)
(* elements (of a list, tuple or set, or the values of a dict), keys the   *)
(* keys of a dict, in insertion order.  A JSON text is represented by its  *)
(* syntax tree, with kinds null, num, str, array and object; the keys of   *)
(* an object are strings and may repeat.                                   *)
(***************************************************************************)
V(k, n, s, keys, items) == [k |-> k, n |-> n, s |-> s, keys |-> keys, items |-> items]

PyNone == V("null", 0, "", <<>>, <<>>)
PyInt(n) == V("int", n, "", <<>>, <<>>)
PyStr(s) == V("str", 0, s, <<>>, <<>>)
PyList(items) == V("list", 0, "", <<>>, items)
PyTuple(items) == V("tuple", 0, "", <<>>, items)
PySet(items) == V("set", 0, "", <<>>, items)
PyDict(keys, items) == V("dict", 0, "", keys, items)

JNull == V("null", 0, "", <<>>, <<>>)
JNum(n) == V("num", n, "", <<>>, <<>>)
JStr(s) == V("str", 0, s, <<>>, <<>>)
JArr(items) == V("array", 0, "", <<>>, items)
JObj(keys, items) == V("object", 0, "", keys, items)

Digits == <<"0", "1", "2", "3", "4", "5", "6", "7", "8", "9">>

\* str(n) for a non-negative int: its decimal digits.
RECURSIVE IntToStr(_)
IntToStr(n) ==
    IF n < 10 THEN Digits[n + 1]
    ELSE IntToStr(n \div 10) \o Digits[(n % 10) + 1]

\* json.dump accepts str and int keys of a dict and writes an int key as its
\* decimal text.
KeyStr(key) == IF key.k = "int" THEN IntToStr(key.n) ELSE key.s

\* TRUE iff json.dump writes v without raising TypeError.
RECURSIVE JsonSerializable(_)
JsonSerializable(v) ==
    /\ v.k \in {"null", "int", "str", "list", "tuple", "dict"}
    /\ \A i \in DOMAIN v.keys : v.keys[i].k \in {"int", "str"}
    /\ \A i \in DOMAIN v.items : JsonSerializable(v.items[i])

\* What json.dump writes for a serializable v.
RECURSIVE Encode(_)
Encode(v) ==
    CASE v.k = "null" -> JNull
      [] v.k = "int" -> JNum(v.n)
      [] v.k = "str" -> JStr(v.s)
      [] v.k \in {"list", "tuple"} ->
            JArr([i \in DOMAIN v.items |-> Encode(v.items[i])])
      [] v.k = "dict" ->
            JObj([i \in DOMAIN v.keys |-> JStr(KeyStr(v.keys[i]))],
                 [i \in DOMAIN v.items |-> Encode(v.items[i])])

\* A variant that is NOT the code: the dict is replaced by the one entry.
DictPutAlone(d, key, val) == PyDict(<<key>>, <<val>>)
\* d[key] = val on a dict: an existing key keeps its place and takes the new
\* value, a new key is appended.
DictPut(d, key, val) ==
    IF \E i \in DOMAIN d.keys : d.keys[i] = key
    THEN LET i == CHOOSE i \in DOMAIN d.keys : d.keys[i] = key
         IN  PyDict(d.keys, [d.items EXCEPT ![i] = val])
    ELSE PyDict(Append(d.keys, key), Append(d.items, val))

\* What json.load builds from a JSON text.
RECURSIVE Decode(_)
RECURSIVE DecodePairs(_, _, _)
Decode(j) ==
    CASE j.k = "null" -> PyNone
      [] j.k = "num" -> PyInt(j.n)
      [] j.k = "str" -> PyStr(j.s)
      [] j.k = "array" -> PyList([i \in DOMAIN j.items |-> Decode(j.items[i])])
      [] j.k = "object" -> DecodePairs(j, 1, PyDict(<<>>, <<>>))
DecodePairs(j, i, acc) ==
    IF i > Len(j.keys) THEN acc
    ELSE DecodePairs(j, i + 1, DictPut(acc, PyStr(j.keys[i].s), Decode(j.items[i])))

\* TRUE iff v is a JSON value: null, a number, a string, a list of JSON values
\* or a dict of JSON values under string keys (what response.json() returns).
RECURSIVE IsJsonValue(_)
IsJsonValue(v) ==
    /\ v.k \in {"null", "int", "str", "list", "dict"}
    /\ \A i \in DOMAIN v.keys : v.keys[i].k = "str"
    /\ \A i \in DOMAIN v.items : IsJsonValue(v.items[i])

(***************************************************************************)
(* The cache store.  A cache file is absent, holds a JSON text written by  *)
(* save_cache (the envelope {"timestamp": ts, "data": data}), or holds the *)
(* truncated text an interrupted json.dump leaves behind.                  *)
(***************************************************************************)
NoFile == [st |-> "absent", ts |-> 0, data |-> JNull]
PartialFile == [st |-> "partial", ts |-> 0, data |-> JNull]
Envelope(ts, data) == [st |-> "ok", ts |-> ts, data |-> data]

\* The I/O errors the environment can inject into one call.
SaveFaults == {"none", "mkdir", "open", "dump"}
LoadFaults == {"none", "stat_raise", "stat_ignored", "read"}

\* A variant that is NOT the code: an entry expires already at age CACHE_EXPIRY.
ExpiredGe(t, ts) == t - ts >= CACHE_EXPIRY
\* load_cache line 61: the freshness test.
Expired(t, ts) == t - ts > CACHE_EXPIRY

\* load_cache(cache_file) called at time t: whether it raised and, if not, the
\* value it returned (None is PyNone).  Path.exists() runs outside the try
\* block: a stat error other than ENOENT, ENOTDIR, EBADF and ELOOP propagates
\* on the Python versions whose pathlib re-raises it (stat_raise) and counts
\* as "no file" on the others (stat_ignored).  Errors of open and json.load
\* are caught.
LoadResult(file, t, fault) ==
    CASE fault = "stat_raise" -> [raised |-> TRUE, val |-> PyNone]
      [] fault = "stat_ignored" -> [raised |-> FALSE, val |-> PyNone]
      [] file.st = "absent" -> [raised |-> FALSE, val |-> PyNone]
      [] fault = "read" -> [raised |-> FALSE, val |-> PyNone]
      [] file.st = "partial" -> [raised |-> FALSE, val |-> PyNone]
      [] Expired(t, file.ts) -> [raised |-> FALSE, val |-> PyNone]
      [] OTHER -> [raised |-> FALSE, val |-> Decode(file.data)]

\* A variant that is NOT the code: the directory is never created.
SaveCacheDirNoMkdir(dir, fault) == dir
\* save_cache line 77: CACHE_DIR.mkdir(exist_ok=True).
SaveCacheDir(dir, fault) == IF fault = "mkdir" THEN dir ELSE TRUE

\* A variant that is NOT the code: an entry already stored is never overwritten.
SaveCacheFileKeepOld(file, dirAfter, data, t, fault) ==
    CASE fault \in {"mkdir", "open"} \/ ~dirAfter -> file
      [] file.st = "ok" -> file
      [] fault = "dump" \/ ~JsonSerializable(data) -> PartialFile
      [] OTHER -> Envelope(t, Encode(data))
\* save_cache lines 78-80: open(cache_file, "w") truncates the file, json.dump
\* writes the envelope piece by piece.  Nothing is written when mkdir or open
\* raised (open raises when the directory is missing); a json.dump that raises
\* (an I/O error, or TypeError on a value it cannot serialize) leaves a
\* truncated text.
SaveCacheFile(file, dirAfter, data, t, fault) ==
    CASE fault \in {"mkdir", "open"} \/ ~dirAfter -> file
      [] fault = "dump" \/ ~JsonSerializable(data) -> PartialFile
      [] OTHER -> Envelope(t, Encode(data))

\* TRUE iff save_cache persisted the entry (it logs "Saved data to ...").
SaveSucceeded(dirAfter, data, fault) ==
    dirAfter /\ fault = "none" /\ JsonSerializable(data)

\* Which faults can occur in a state: mkdir can only fail when it has a
\* directory to create, a stat or read error needs something to stat or read.
SaveFaultPossible(dir, fault) == fault = "mkdir" => ~dir
LoadFaultPossible(dir, file, fault) ==
    /\ fault \in {"stat_raise", "stat_ignored"} => dir
    /\ fault = "read" => file.st # "absent"

(***************************************************************************)
(* The log parser.  A text is the sequence of its characters; NL stands    *)
(* for the line break.                                                     *)
(***************************************************************************)
NL == "\n"
FAIL_MARKER == <<" ", "F", "A", "I", "L", " ">>
FAIL_WORD == <<"F", "A", "I", "L">>
AZTEC == <<"@", "a", "z", "t", "e", "c", "/">>
TEST_TS == <<".", "t", "e", "s", "t", ".", "t", "s">>

Letters ==
    {"a", "b", "c", "d", "e", "f", "g", "h", "i", "j", "k", "l", "m", "n", "o",
     "p", "q", "r", "s", "t", "u", "v", "w", "x", "y", "z", "A", "B", "C", "D",
     "E", "F", "G", "H", "I", "J", "K", "L", "M", "N", "O", "P", "Q", "R", "S",
     "T", "U", "V", "W", "X", "Y", "Z"}
DigitChars == {Digits[i] : i \in DOMAIN Digits}

\* The character classes [a-zA-Z0-9-] and [a-zA-Z0-9/].
PackageChars == Letters \cup DigitChars \cup {"-"}
PathChars == Letters \cup DigitChars \cup {"/"}
PackageChar(c) == c \in PackageChars
PathChar(c) == c \in PathChars

SetMin(S) == CHOOSE x \in S : \A y \in S : x <= y

\* lit occurs in line from position i on; lit occurs in line.
StartsAt(line, i, lit) ==
    /\ i >= 1
    /\ i + Len(lit) - 1 <= Len(line)
    /\ SubSeq(line, i, i + Len(lit) - 1) = lit
Contains(line, lit) == \E i \in 1..Len(line) : StartsAt(line, i, lit)

\* The end of the longest run of characters of a class that starts at i
\* (i - 1 when line[i] is not of the class): what a greedy "+" consumes.
RunEnd(line, i, class) ==
    LET stops == {k \in i..Len(line) : line[k] \notin class}
    IN  IF stops = {} THEN Len(line) ELSE SetMin(stops) - 1

\* A variant that is NOT the code: the marker without its spaces.
HasFailWord(line) == Contains(line, FAIL_WORD)
\* parse_test_failures line 251: " FAIL " in line.
HasFailMarker(line) == Contains(line, FAIL_MARKER)

\* parse_test_failures lines 256-257: re.search of \[(@aztec/[a-zA-Z0-9-]+)\],
\* group 1 of the leftmost match, <<>> for None.
PackageMatchAt(line, i) ==
    /\ StartsAt(line, i, <<"[">> \o AZTEC)
    /\ LET e == RunEnd(line, i + 8, PackageChars)
       IN  e >= i + 8 /\ e < Len(line) /\ line[e + 1] = "]"
SearchPackage(line) ==
    LET starts == {i \in 1..Len(line) : PackageMatchAt(line, i)}
    IN  IF starts = {} THEN <<>>
        ELSE SubSeq(line, SetMin(starts) + 1,
                    RunEnd(line, SetMin(starts) + 8, PackageChars))

\* parse_test_failures lines 260-261: re.search of [a-zA-Z0-9/]+\.test\.ts,
\* the leftmost match, <<>> for None.
TestFileMatchAt(line, i) ==
    /\ PathChar(line[i])
    /\ StartsAt(line, RunEnd(line, i, PathChars) + 1, TEST_TS)
SearchTestFile(line) ==
    LET starts == {i \in 1..Len(line) : TestFileMatchAt(line, i)}
    IN  IF starts = {} THEN <<>>
        ELSE SubSeq(line, SetMin(starts),
                    RunEnd(line, SetMin(starts), PathChars) + Len(TEST_TS))

\* parse_test_failures lines 251-264: what one line appends to failures.
LineFailures(line) ==
    IF HasFailMarker(line) /\ SearchPackage(line) # <<>> /\ SearchTestFile(line) # <<>>
    THEN {SearchPackage(line) \o <<" ", "(">> \o SearchTestFile(line) \o <<")">>}
    ELSE {}

\* str.splitlines(): the lines between the line breaks; a text that ends with
\* a line break has no empty last line.
SplitLines(text) ==
    LET breaks == {i \in DOMAIN text : text[i] = NL}
        ends == breaks \cup (IF text # <<>> /\ text[Len(text)] # NL
                             THEN {Len(text) + 1} ELSE {})
        StartOf(e) == IF \E b \in breaks : b < e
                      THEN (CHOOSE b \in breaks :
                               b < e /\ \A c \in breaks : c < e => c <= b) + 1
                      ELSE 1
    IN  {SubSeq(text, StartOf(e), e - 1) : e \in ends}

\* parse_test_failures: set(failures), the records of the lines of the text.
ParseTestFailures(text) == UNION {LineFailures(line) : line \in SplitLines(text)}

\* list(S): the elements of a set, once each, in an order Python chooses.
ListsOf(S) ==
    {l \in [1..Cardinality(S) -> S] : \A i, j \in DOMAIN l : i # j => l[i] # l[j]}

(***************************************************************************)
(* Log lines, and the texts made of them.                                  *)
(***************************************************************************)
\* " FAIL [@aztec/p-n] s/a.test.ts"
LineFail ==
    <<" ", "F", "A", "I", "L", " ", "[", "@", "a", "z", "t", "e", "c", "/",
      "p", "-", "n", "]", " ", "s", "/", "a", ".", "t", "e", "s", "t",
      ".", "t", "s">>
\* "x FAIL  [@aztec/p-n] (s/a.test.ts)"
LineFailAgain ==
    <<"x", " ", "F", "A", "I", "L", " ", " ", "[", "@", "a", "z", "t", "e",
      "c", "/", "p", "-", "n", "]", " ", "(", "s", "/", "a", ".", "t",
      "e", "s", "t", ".", "t", "s", ")">>
\* "FAIL [@aztec/p-n] s/a.test.ts"
LineNoSpace ==
    <<"F", "A", "I", "L", " ", "[", "@", "a", "z", "t", "e", "c", "/", "p",
      "-", "n", "]", " ", "s", "/", "a", ".", "t", "e", "s", "t", ".",
      "t", "s">>
\* " PASS [@aztec/p-n] s/a.test.ts"
LinePass ==
    <<" ", "P", "A", "S", "S", " ", "[", "@", "a", "z", "t", "e", "c", "/",
      "p", "-", "n", "]", " ", "s", "/", "a", ".", "t", "e", "s", "t",
      ".", "t", "s">>
\* " FAIL [@aztec/] s/a.test.ts"
LineNoName ==
    <<" ", "F", "A", "I", "L", " ", "[", "@", "a", "z", "t", "e", "c", "/",
      "]", " ", "s", "/", "a", ".", "t", "e", "s", "t", ".", "t", "s">>
\* " FAIL @aztec/p-n s/a.test.ts"
LineNoBracket ==
    <<" ", "F", "A", "I", "L", " ", "@", "a", "z", "t", "e", "c", "/", "p",
      "-", "n", " ", "s", "/", "a", ".", "t", "e", "s", "t", ".", "t",
      "s">>
\* " FAIL [@aztec/p-n] s/a.spec.ts"
LineSpecFile ==
    <<" ", "F", "A", "I", "L", " ", "[", "@", "a", "z", "t", "e", "c", "/",
      "p", "-", "n", "]", " ", "s", "/", "a", ".", "s", "p", "e", "c",
      ".", "t", "s">>
\* " FAIL [@aztec/b] p-n.test.ts"
LineHyphen ==
    <<" ", "F", "A", "I", "L", " ", "[", "@", "a", "z", "t", "e", "c", "/",
      "b", "]", " ", "p", "-", "n", ".", "t", "e", "s", "t", ".", "t",
      "s">>
\* " FAIL [@aztec/b] .test.ts"
LineBareSuffix ==
    <<" ", "F", "A", "I", "L", " ", "[", "@", "a", "z", "t", "e", "c", "/",
      "b", "]", " ", ".", "t", "e", "s", "t", ".", "t", "s">>
\* " FAIL [x] [@aztec/b][@aztec/c] a.test.tsx b.test.ts"
LineTwoOfEach ==
    <<" ", "F", "A", "I", "L", " ", "[", "x", "]", " ", "[", "@", "a", "z",
      "t", "e", "c", "/", "b", "]", "[", "@", "a", "z", "t", "e", "c",
      "/", "c", "]", " ", "a", ".", "t", "e", "s", "t", ".", "t", "s",
      "x", " ", "b", ".", "t", "e", "s", "t", ".", "t", "s">>
\* " FAIL [@aztec/p_n] [@aztec/c a.test.ts"
LineOpen ==
    <<" ", "F", "A", "I", "L", " ", "[", "@", "a", "z", "t", "e", "c", "/",
      "p", "_", "n", "]", " ", "[", "@", "a", "z", "t", "e", "c", "/",
      "c", " ", "a", ".", "t", "e", "s", "t", ".", "t", "s">>
\* ""
LineEmpty ==
    <<>>

Lines ==
    {LineFail, LineFailAgain, LineNoSpace, LinePass, LineNoName, LineNoBracket,
     LineSpecFile, LineHyphen, LineBareSuffix, LineTwoOfEach, LineOpen, LineEmpty}

\* "\n".join(ls).
RECURSIVE JoinLines(_)
JoinLines(ls) ==
    IF ls = <<>> THEN <<>>
    ELSE IF Len(ls) = 1 THEN ls[1]
    ELSE ls[1] \o <<NL>> \o JoinLines(Tail(ls))

\* The texts of at most MaxLines lines, with and without a final line break.
Texts ==
    LET joined == {JoinLines(ls) : ls \in UNION {[1..n -> Lines] : n \in 0..MaxLines}}
    IN  joined \cup {t \o <<NL>> : t \in joined}

\* The texts the log downloads return.
LogTexts ==
    << JoinLines(<<LinePass, LineFail, LineHyphen>>),
       JoinLines(<<LineFailAgain, LineNoSpace, LineFail>>) >>

(***************************************************************************)
(* The remote fetcher.  Runs and jobs are the JSON objects of the API's    *)
(* responses, as response.json() decodes them: dicts under string keys.    *)
(* created_at, an ISO-8601 text that main.py compares as text, is          *)
(* represented by a number that orders the same way.                       *)
(***************************************************************************)
per_page == 100
YARN_JOB == "yarn-project-test"

\* d[key] and "key in d" for a dict d and a str key.
Get(d, key) == d.items[CHOOSE i \in DOMAIN d.keys : d.keys[i] = PyStr(key)]
HasKey(d, key) == \E i \in DOMAIN d.keys : d.keys[i] = PyStr(key)

\* bool(v) as "load_cache(...) or {}" tests it.
Truthy(v) ==
    CASE v.k = "null" -> FALSE
      [] v.k = "int" -> v.n # 0
      [] v.k = "str" -> v.s # ""
      [] OTHER -> v.items # <<>>

EmptyDict == PyDict(<<>>, <<>>)

\* A variant that is NOT the code: the map that was loaded is not used.
OrEmptyDictAlways(v) == EmptyDict
\* find_failed_jobs line 113.
OrEmptyDict(v) == IF Truthy(v) THEN v ELSE EmptyDict

Run(id, created_at) ==
    PyDict(<<PyStr("id"), PyStr("created_at")>>, <<PyInt(id), PyInt(created_at)>>)
Job(id, name, conclusion) ==
    PyDict(<<PyStr("id"), PyStr("name"), PyStr("conclusion")>>,
           <<PyInt(id), PyStr(name), conclusion>>)

\* A variant that is NOT the code: oldest first.
InsertDescAsc(sorted, x) ==
    LET later == {i \in DOMAIN sorted :
                     Get(sorted[i], "created_at").n > Get(x, "created_at").n}
        k == IF later = {} THEN 1 ELSE
                 CHOOSE i \in later : \A j \in later : j >= i
    IN  SubSeq(sorted, 1, k - 1) \o <<x>> \o SubSeq(sorted, k, Len(sorted))
\* sorted(runs, key=created_at, reverse=True): a stable sort, runs of equal
\* created_at keep the order of the response.
InsertDesc(sorted, x) ==
    LET smaller == {i \in DOMAIN sorted :
                       Get(sorted[i], "created_at").n < Get(x, "created_at").n}
        k == IF smaller = {} THEN Len(sorted) + 1 ELSE
                 CHOOSE i \in smaller : \A j \in smaller : j >= i
    IN  SubSeq(sorted, 1, k - 1) \o <<x>> \o SubSeq(sorted, k, Len(sorted))

RECURSIVE SortDesc(_)
SortDesc(s) ==
    IF s = <<>> THEN <<>>
    ELSE InsertDesc(SortDesc(SubSeq(s, 1, Len(s) - 1)), s[Len(s)])

\* The response to the job-list request for page p of a run whose jobs are
\* `jobs`, at per_page jobs a page.
ServerPage(jobs, p) ==
    LET first == (p - 1) * per_page + 1
        last == IF p * per_page < Len(jobs) THEN p * per_page ELSE Len(jobs)
    IN  IF first > last THEN <<>> ELSE SubSeq(jobs, first, last)

\* A variant that is NOT the code: the loop ends after the first page.
MorePagesNever(jobs) == FALSE
\* A variant that is NOT the code: only an empty page ends the loop.
MorePagesAlways(jobs) == jobs # <<>>
\* find_failed_jobs lines 132-141: TRUE iff the loop requests another page
\* after a page `jobs`.
MorePages(jobs) == jobs # <<>> /\ ~(Len(jobs) < per_page)

\* A variant that is NOT the code: every conclusion but success counts.
IsFailedNotSuccess(job) == Get(job, "conclusion") # PyStr("success")
\* find_failed_jobs line 143.
IsFailed(job) == Get(job, "conclusion") = PyStr("failure")
FilterFailed(jobs) == SelectSeq(jobs, IsFailed)

\* The outcomes of one get_job_logs call that finds no fresh log file.
LogOutcomes == {"redirect_ok", "not_redirect", "http_error", "download_error"}

\* The text the log download of a job returns (an index into the log texts).
LogTextOf(job_id) == 1 + (job_id % 2)

NoLogs == [i \in {} |-> 0]
NoTimes == [i \in {} |-> 0]

\* get_job_logs line 168: the log file exists and is younger than CACHE_EXPIRY.
HasFreshLog(store, job_id, t) ==
    job_id \in DOMAIN store /\ t - store[job_id].mtime < CACHE_EXPIRY

\* A variant that is NOT the code: the log file is written whatever the answer.
GetJobLogsWriteAlways(st, job_id, t, o) ==
    [dir |-> TRUE,
     logs |-> (job_id :> [mtime |-> t, text |-> LogTextOf(job_id)]) @@ st.logs]
\* get_job_logs(job_id) at time t on st = [dir, logs]: LOGS_DIR.mkdir creates
\* the cache directory too (parents=True); a log file younger than CACHE_EXPIRY
\* is read back; otherwise the file is written only when the log endpoint
\* answers 302 and the download succeeds.  Every failure raises, and
\* find_failed_jobs catches it (lines 148-151).
GetJobLogs(st, job_id, t, o) ==
    IF job_id \in DOMAIN st.logs /\ t - st.logs[job_id].mtime < CACHE_EXPIRY
    THEN [dir |-> TRUE, logs |-> st.logs]
    ELSE IF o = "redirect_ok"
    THEN [dir |-> TRUE,
          logs |-> (job_id :> [mtime |-> t, text |-> LogTextOf(job_id)]) @@ st.logs]
    ELSE [dir |-> TRUE, logs |-> st.logs]

\* What get_job_logs(job_id) returns or raises at time t: the text of a fresh
\* log file; else the text downloaded; else HTTPError from raise_for_status
\* (line 179 for the log endpoint, line 185 for the download), or the
\* Exception of line 193 for an answer that is neither an error nor a 302.
GetJobLogsResult(store, job_id, t, o) ==
    IF HasFreshLog(store, job_id, t)
    THEN [raised |-> "none", text |-> store[job_id].text]
    ELSE CASE o = "redirect_ok" -> [raised |-> "none", text |-> LogTextOf(job_id)]
           [] o = "not_redirect" -> [raised |-> "Exception", text |-> 0]
           [] OTHER -> [raised |-> "HTTPError", text |-> 0]

\* find_failed_jobs lines 146-151: the loop over the failed jobs, from the
\* i-th on; louts gives the outcome of the log retrieval of each.
RECURSIVE FetchLogs(_, _, _, _, _)
\* A variant that is NOT the code: the first retrieval that fails ends the loop.
FetchLogsUntilFailure(st, failed, i, t, louts) ==
    IF i > Len(failed) THEN st
    ELSE IF Get(failed[i], "name") = PyStr(YARN_JOB)
    THEN IF louts[i] # "redirect_ok" /\ ~HasFreshLog(st.logs, Get(failed[i], "id").n, t)
         THEN st
         ELSE FetchLogs(GetJobLogs(st, Get(failed[i], "id").n, t, louts[i]),
                        failed, i + 1, t, louts)
    ELSE FetchLogs(st, failed, i + 1, t, louts)
FetchLogs(st, failed, i, t, louts) ==
    IF i > Len(failed) THEN st
    ELSE IF Get(failed[i], "name") = PyStr(YARN_JOB)
    THEN FetchLogs(GetJobLogs(st, Get(failed[i], "id").n, t, louts[i]),
                   failed, i + 1, t, louts)
    ELSE FetchLogs(st, failed, i + 1, t, louts)

\* A request to the remote API: the run list ("runs"), a job-list page of a
\* run ("jobs") or the log endpoint of a job ("log"), and how it was answered:
\* "ok" or "error" (non-2xx) for a list, "ok" (the log was delivered) or
\* "failed" for a log.
Request(kind, id, pg, status) ==
    [kind |-> kind, id |-> id, page |-> pg, status |-> status]

\* A variant that is NOT the code: no answer raises.
RaisesNever(status) == FALSE
\* response.raise_for_status() (lines 98 and 128): a non-2xx answer raises.
Raises(status) == status = "error"

\* find_failed_jobs lines 146-151: the requests to the log endpoint the loop
\* over the failed jobs makes, from the i-th job on; a job whose log file is
\* fresh is served from the file.
RECURSIVE LogRequests(_, _, _, _, _)
LogRequests(store, failed, i, t, louts) ==
    IF i > Len(failed) THEN <<>>
    ELSE IF /\ Get(failed[i], "name") = PyStr(YARN_JOB)
            /\ ~HasFreshLog(store, Get(failed[i], "id").n, t)
    THEN <<Request("log", Get(failed[i], "id").n, 0,
                   IF louts[i] = "redirect_ok" THEN "ok" ELSE "failed")>>
            \o LogRequests(store, failed, i + 1, t, louts)
    ELSE LogRequests(store, failed, i + 1, t, louts)

YarnPositions(failed) ==
    {i \in DOMAIN failed : Get(failed[i], "name") = PyStr(YARN_JOB)}

(***************************************************************************)
(* The aggregator.                                                         *)
(***************************************************************************)
RECURSIVE AddCounts(_, _, _)
\* A variant that is NOT the code: the count is set to 1, not incremented.
AddCountsAssign(c, failed, i) ==
    IF i > Len(failed) THEN c
    ELSE AddCounts((Get(failed[i], "name").s :> 1) @@ c, failed, i + 1)
\* main lines 291-296: job_failure_counts[job_name] += 1 for each failed job,
\* from the i-th on.  The tally is a defaultdict: a name is a key once counted.
AddCounts(c, failed, i) ==
    IF i > Len(failed) THEN c
    ELSE LET name == Get(failed[i], "name").s
         IN  AddCounts(IF name \in DOMAIN c
                       THEN [c EXCEPT ![name] = @ + 1]
                       ELSE (name :> 1) @@ c,
                       failed, i + 1)

\* The number of I/O errors among the faults given.
FaultCount(fs) == Cardinality({i \in DOMAIN fs : fs[i] # "none"})

NoCounts == [n \in {} |-> 0]

\* find_failed_jobs lines 153-155, for the record: when the list of each run
\* of the persisted job map was fetched, after a miss on run_id at time t that
\* had loaded the map `loaded`.  A save that persists writes the loaded
\* entries and the new one; a json.dump that fails leaves no entry; a save
\* that fails earlier leaves the file as it was.
FetchTimes(times, loaded, run_id, t, dirAfter, map, fault) ==
    IF SaveSucceeded(dirAfter, map, fault)
    THEN [id \in {i \in DOMAIN times : HasKey(loaded, IntToStr(i))} \cup {run_id} |->
             IF id = run_id THEN t ELSE times[id]]
    ELSE IF dirAfter /\ fault \notin {"mkdir", "open"}
    THEN NoTimes
    ELSE times

\* parse_test_failures on each text the log downloads return.
LogRecords == [i \in DOMAIN LogTexts |-> ParseTestFailures(LogTexts[i])]

\* A variant that is NOT the code: a record is counted once, however many log
\* files have it.
CountTestFailuresOnce(store, readable) ==
    [r \in UNION {LogRecords[store[j].text] : j \in readable} |-> 1]
\* main lines 305-313: test_failure_counts[failure] += 1 for each record of
\* each log file read; parse_test_failures returns a record once per file.
CountTestFailures(store, readable) ==
    LET RecordsOf(j) == LogRecords[store[j].text]
    IN  [r \in UNION {RecordsOf(j) : j \in readable} |->
            Cardinality({j \in readable : r \in RecordsOf(j)})]
NoRet == [how |-> "none", run_id |-> 0, jobs |-> <<>>, saved |-> FALSE]

(***************************************************************************)
(* Direct calls of the cache store, with any payload, under any key.       *)
(***************************************************************************)
Payloads ==
    { PyList(<<PyInt(1), PyStr("a")>>),
      PyDict(<<PyStr("101")>>, <<PyList(<<PyStr("build")>>)>>),
      PyDict(<<PyInt(101)>>, <<PyList(<<PyStr("build")>>)>>),
      PyTuple(<<PyInt(1)>>),
      PySet(<<PyInt(1)>>) }

\* The server of the scenarios: no API.
NoServer == [runs |-> <<>>, jobs |-> [i \in {} |-> <<>>]]

\* The locals of main and find_failed_jobs when a pass starts (lines 273-275).
PassStart ==
    /\ outcome = "running"
    /\ runs = <<>>
    /\ idx = 1
    /\ jobs_cache = EmptyDict
    /\ page = 1
    /\ all_jobs = <<>>
    /\ reqs = <<>>
    /\ ret = NoRet
    /\ job_failure_counts = NoCounts
    /\ visited = <<>>
    /\ failure_data = <<>>
    /\ heatmap = FALSE
    /\ test_failure_counts = NoCounts
    /\ requests = <<>>
    /\ log_content = <<>>
    /\ failures = <<>>

NoLogCall == [op |-> "none", job_id |-> 0, o |-> "none", t |-> 0,
              before |-> NoLogs, raised |-> "none", text |-> 0]
NoProcs == <<>>

NoCall == [op |-> "none", key |-> "", arg |-> PyNone, fault |-> "none", t |-> 0,
           dirBefore |-> FALSE, before |-> NoFile, raised |-> FALSE, ret |-> PyNone]

InitCache ==
    /\ now = 0
    /\ cacheDir \in BOOLEAN
    /\ files = [f \in CacheFiles |-> NoFile]
    /\ call = NoCall
    /\ nEnv = 0
    /\ logs = NoLogs
    /\ srv = NoServer
    /\ pc = "off"
    /\ PassStart
    /\ passes = 0
    /\ fetchedAt = NoTimes
    /\ logcall = NoLogCall
    /\ procs = NoProcs

SaveCall(data, key, fault) ==
    /\ SaveFaultPossible(cacheDir, fault)
    /\ LET dirAfter == SaveCacheDir(cacheDir, fault)
       IN  /\ cacheDir' = dirAfter
           /\ files' = [files EXCEPT ![key] =
                            SaveCacheFile(files[key], dirAfter, data, now, fault)]
    /\ call' = [op |-> "save", key |-> key, arg |-> data, fault |-> fault, t |-> now,
                dirBefore |-> cacheDir, before |-> files[key],
                raised |-> FALSE, ret |-> PyNone]
    /\ UNCHANGED <<now, logs, nEnv, passVars>>

LoadCall(key, fault) ==
    /\ LoadFaultPossible(cacheDir, files[key], fault)
    /\ LET r == LoadResult(files[key], now, fault)
       IN  call' = [op |-> "load", key |-> key, arg |-> PyNone, fault |-> fault,
                    t |-> now, dirBefore |-> cacheDir, before |-> files[key],
                    raised |-> r.raised, ret |-> r.val]
    /\ UNCHANGED <<now, storeVars, nEnv, passVars>>

\* Time passes: a second, or a whole expiry window.  The program reads the
\* clock in load_cache, save_cache and get_job_logs only; time advances between
\* direct calls of the cache store, before a pass and between the runs of one.
Tick(d) ==
    /\ pc \in {"off", "start", "loop"}
    /\ nEnv < MaxEnv
    /\ now' = now + d
    /\ nEnv' = nEnv + 1
    /\ UNCHANGED <<storeVars, call, passVars>>

NextCache ==
    \/ \E data \in Payloads, key \in CacheFiles, fault \in SaveFaults :
          SaveCall(data, key, fault)
    \/ \E key \in CacheFiles, fault \in LoadFaults : LoadCall(key, fault)
    \/ \E d \in {1, CACHE_EXPIRY} : Tick(d)

SpecCache == InitCache /\ [][NextCache]_vars

(***************************************************************************)
(* The aggregation pass: main, step by step.  Each request to the remote   *)
(* API is answered "ok" (2xx, with the server's data) or "error" (any      *)
(* other status, on which raise_for_status raises HTTPError).              *)
(***************************************************************************)
NameOf(k) ==
    IF k \in {1, per_page + 1} THEN YARN_JOB
    ELSE IF k % 2 = 0 THEN "build" ELSE "lint"

\* Two mixes of conclusions: failures at both ends of every page, or every
\* third job failed among cancelled and unfinished (null) ones.
ConclusionOf(k, pat) ==
    IF pat = "edges"
    THEN IF k % per_page \in {0, 1} THEN PyStr("failure") ELSE PyStr("success")
    ELSE CASE k % 3 = 0 -> PyStr("failure")
           [] k % 3 = 1 -> PyStr("cancelled")
           [] OTHER -> PyNone

MkJobs(base, len, pat) ==
    [k \in 1..len |-> Job(base + k, NameOf(k), ConclusionOf(k, pat))]

\* Servers with one run whose job list fills n pages and r jobs of one more.
PageServers ==
    { [runs |-> <<Run(101, 1)>>,
       jobs |-> (101 :> MkJobs(101000, n * per_page + r, pat))] :
        n \in 0..MaxFullPages, r \in {0, 1, per_page - 1}, pat \in {"edges", "mixed"} }

\* Servers with several runs: the run 102 newer than 101 and alone in having a
\* failed job, "build"; three runs, two of the same created_at, listed out of
\* order; no run at all.
MainServers ==
    { [runs |-> <<Run(101, 1), Run(102, 2)>>,
       jobs |-> (101 :> <<Job(1011, "build", PyStr("success"))>>)
                @@ (102 :> <<Job(1021, "build", PyStr("failure"))>>)],
      [runs |-> <<Run(102, 2), Run(101, 1), Run(103, 2)>>,
       jobs |-> (101 :> <<Job(1011, "build", PyStr("failure"))>>)
                @@ (102 :> <<>>)
                @@ (103 :> <<Job(1031, YARN_JOB, PyStr("failure")),
                             Job(1032, "build", PyStr("failure")),
                             Job(1033, "lint", PyStr("success"))>>)],
      NoServer }

\* A server that has a full page of jobs for every page number the model
\* asks for.
EndlessServers ==
    { [runs |-> <<Run(101, 1)>>,
       jobs |-> (101 :> MkJobs(101000, MaxPage * per_page, "edges"))] }

Init ==
    /\ now = 0
    /\ cacheDir = FALSE
    /\ files = [f \in CacheFiles |-> NoFile]
    /\ logs = NoLogs
    /\ call = NoCall
    /\ nEnv = 0
    /\ srv \in MainServers
    /\ pc = "start"
    /\ PassStart
    /\ passes = 1
    /\ fetchedAt = NoTimes
    /\ logcall = NoLogCall
    /\ procs = NoProcs

\* A server whose one run has two failed yarn-project-test jobs: two log
\* files, whose texts share a failure record.
TallyServers ==
    { [runs |-> <<Run(103, 2)>>,
       jobs |-> (103 :> <<Job(1031, YARN_JOB, PyStr("failure")),
                          Job(1032, YARN_JOB, PyStr("failure"))>>)] }

\* Passes against such a server.
InitTally ==
    /\ now = 0
    /\ cacheDir = FALSE
    /\ files = [f \in CacheFiles |-> NoFile]
    /\ logs = NoLogs
    /\ call = NoCall
    /\ nEnv = 0
    /\ srv \in TallyServers
    /\ pc = "start"
    /\ PassStart
    /\ passes = 1
    /\ fetchedAt = NoTimes
    /\ logcall = NoLogCall
    /\ procs = NoProcs

\* One pass against a server whose job list takes several pages.
InitPages ==
    /\ now = 0
    /\ cacheDir = FALSE
    /\ files = [f \in CacheFiles |-> NoFile]
    /\ logs = NoLogs
    /\ call = NoCall
    /\ nEnv = 0
    /\ srv \in PageServers
    /\ pc = "start"
    /\ PassStart
    /\ passes = 1
    /\ fetchedAt = NoTimes
    /\ logcall = NoLogCall
    /\ procs = NoProcs

\* The run main is checking, and its key in the job map.
RunId == Get(runs[idx], "id").n
RunKey == IntToStr(RunId)

\* main lines 287-301 on the list find_failed_jobs returned.
Tally(failed, how, saved) ==
    /\ ret' = [how |-> how, run_id |-> RunId, jobs |-> failed, saved |-> saved]
    /\ job_failure_counts' = AddCounts(job_failure_counts, failed, 1)
    /\ visited' = Append(visited, [id |-> RunId, jobs |-> failed])
    /\ failure_data' = IF failed # <<>> THEN Append(failure_data, RunId)
                       ELSE failure_data
    /\ idx' = idx + 1
    /\ pc' = "loop"

\* main lines 336-339: an exception ends the pass with one logged error.
Abort(kind) ==
    /\ pc' = "done"
    /\ outcome' = kind

\* get_failed_workflow_runs, called by main (line 278).
GetRuns(lf, status, sf) ==
    LET r == LoadResult(files[WORKFLOW_CACHE_FILE], now, lf)
        hit == ~r.raised /\ r.val # PyNone
        fetched == SortDesc(srv.runs)
        dirAfter == SaveCacheDir(cacheDir, sf)
    IN  /\ pc = "start"
        /\ LoadFaultPossible(cacheDir, files[WORKFLOW_CACHE_FILE], lf)
        /\ SaveFaultPossible(cacheDir, sf)
        /\ (r.raised \/ hit) => (status = "ok" /\ sf = "none")
        /\ status = "error" => sf = "none"
        /\ nEnv + FaultCount(<<lf, sf>>) <= MaxEnv
        /\ nEnv' = nEnv + FaultCount(<<lf, sf>>)
        /\ IF r.raised
           THEN Abort("error") /\ UNCHANGED <<runs, cacheDir, files, requests>>
           ELSE IF hit
           THEN /\ runs' = r.val.items
                /\ pc' = "loop"
                /\ UNCHANGED <<outcome, cacheDir, files, requests>>
           ELSE IF Raises(status)
           THEN /\ Abort("http_error")
                /\ requests' = Append(requests, Request("runs", 0, 1, status))
                /\ UNCHANGED <<runs, cacheDir, files>>
           ELSE /\ runs' = fetched
                /\ requests' = Append(requests, Request("runs", 0, 1, status))
                /\ cacheDir' = dirAfter
                /\ files' = [files EXCEPT ![WORKFLOW_CACHE_FILE] =
                                SaveCacheFile(@, dirAfter, PyList(fetched), now, sf)]
                /\ pc' = "loop"
                /\ UNCHANGED outcome
        /\ UNCHANGED <<now, logs, call, srv, idx, jobs_cache, page, all_jobs,
                       reqs, ret, job_failure_counts, visited, failure_data,
                       heatmap, test_failure_counts, passes, parserVars,
                       fetchedAt, callVars>>

\* find_failed_jobs lines 110-123, called by main for the next run: the job
\* map is loaded; a hit returns the cached list, which main tallies; a miss
\* starts the page loop.
FindJobsBegin(lf) ==
    LET r == LoadResult(files[JOBS_CACHE_FILE], now, lf)
        cache == OrEmptyDict(r.val)
    IN  /\ pc = "loop"
        /\ idx <= Len(runs)
        /\ LoadFaultPossible(cacheDir, files[JOBS_CACHE_FILE], lf)
        /\ nEnv + FaultCount(<<lf>>) <= MaxEnv
        /\ nEnv' = nEnv + FaultCount(<<lf>>)
        /\ IF r.raised
           THEN /\ Abort("error")
                /\ UNCHANGED <<idx, jobs_cache, page, all_jobs, reqs, ret,
                               job_failure_counts, visited, failure_data>>
           ELSE IF HasKey(cache, RunKey)
           THEN /\ Tally(Get(cache, RunKey).items, "hit", FALSE)
                /\ reqs' = <<>>
                /\ UNCHANGED <<outcome, jobs_cache, page, all_jobs>>
           ELSE /\ jobs_cache' = cache
                /\ page' = 1
                /\ all_jobs' = <<>>
                /\ reqs' = <<>>
                /\ pc' = "page"
                /\ UNCHANGED <<outcome, idx, ret, job_failure_counts, visited,
                               failure_data>>
        /\ UNCHANGED <<now, storeVars, call, srv, runs, heatmap,
                       test_failure_counts, passes, parserVars, requests,
                       fetchedAt, callVars>>

\* find_failed_jobs lines 125-141: one turn of the page loop.
FetchPage(status) ==
    LET jobs == ServerPage(srv.jobs[RunId], page)
    IN  /\ pc = "page"
        /\ page <= MaxPage
        /\ reqs' = Append(reqs, page)
        /\ requests' = Append(requests, Request("jobs", RunId, page, status))
        /\ IF Raises(status)
           THEN Abort("http_error") /\ UNCHANGED <<all_jobs, page>>
           ELSE /\ all_jobs' = all_jobs \o jobs
                /\ IF MorePages(jobs)
                   THEN page' = page + 1 /\ pc' = "page"
                   ELSE page' = page /\ pc' = "filter"
                /\ UNCHANGED outcome
        /\ UNCHANGED <<now, storeVars, call, nEnv, srv, runs, idx, jobs_cache, ret,
                       job_failure_counts, visited, failure_data, heatmap,
                       test_failure_counts, passes, parserVars, fetchedAt,
                       callVars>>

\* find_failed_jobs lines 143-157 and main lines 288-301: the failed jobs are
\* filtered out, the logs of those named yarn-project-test are retrieved, the
\* job map is extended by the run's entry and saved whole, and main tallies
\* the list returned.
FinishJobs(louts, sf) ==
    LET failed == FilterFailed(all_jobs)
        st == FetchLogs([dir |-> cacheDir, logs |-> logs], failed, 1, now, louts)
        map == DictPut(jobs_cache, PyStr(RunKey), PyList(failed))
        dirAfter == SaveCacheDir(st.dir, sf)
    IN  /\ pc = "filter"
        /\ SaveFaultPossible(st.dir, sf)
        /\ nEnv + FaultCount(<<sf>>) <= MaxEnv
        /\ nEnv' = nEnv + FaultCount(<<sf>>)
        /\ logs' = st.logs
        /\ requests' = requests \o LogRequests(logs, failed, 1, now, louts)
        /\ fetchedAt' = FetchTimes(fetchedAt, jobs_cache, RunId, now, dirAfter, map, sf)
        /\ cacheDir' = dirAfter
        /\ files' = [files EXCEPT ![JOBS_CACHE_FILE] =
                        SaveCacheFile(@, dirAfter, map, now, sf)]
        /\ jobs_cache' = map
        /\ Tally(failed, "miss", SaveSucceeded(dirAfter, map, sf))
        /\ UNCHANGED <<now, call, srv, outcome, runs, page, all_jobs, reqs,
                       heatmap, test_failure_counts, passes, parserVars, callVars>>

\* main lines 303-334, after the last run: every log file of LOGS_DIR is
\* parsed and its records counted (a file that cannot be read is skipped with
\* a warning), then the summary, and the timeline when the tally is not empty.
Summarize(unreadable) ==
    /\ pc = "loop"
    /\ idx > Len(runs)
    /\ nEnv + Cardinality(unreadable) <= MaxEnv
    /\ nEnv' = nEnv + Cardinality(unreadable)
    /\ test_failure_counts' = CountTestFailures(logs, DOMAIN logs \ unreadable)
    /\ pc' = "done"
    /\ outcome' = IF job_failure_counts # NoCounts THEN "summary" ELSE "no_failures"
    /\ heatmap' = (job_failure_counts # NoCounts)
    /\ UNCHANGED <<now, storeVars, call, srv, runs, idx, jobs_cache, page,
                   all_jobs, reqs, ret, job_failure_counts, visited, failure_data,
                   passes, parserVars, requests, fetchedAt, callVars>>

\* The script is run again.
NewPass ==
    /\ pc = "done"
    /\ passes < MaxPasses
    /\ passes' = passes + 1
    /\ pc' = "start"
    /\ outcome' = "running"
    /\ runs' = <<>>
    /\ idx' = 1
    /\ jobs_cache' = EmptyDict
    /\ page' = 1
    /\ all_jobs' = <<>>
    /\ reqs' = <<>>
    /\ ret' = NoRet
    /\ job_failure_counts' = NoCounts
    /\ visited' = <<>>
    /\ failure_data' = <<>>
    /\ heatmap' = FALSE
    /\ test_failure_counts' = NoCounts
    /\ requests' = <<>>
    /\ UNCHANGED <<now, storeVars, call, nEnv, srv, parserVars, fetchedAt, callVars>>

Next ==
    \/ \E lf \in LoadFaults, status \in {"ok", "error"}, sf \in SaveFaults :
          GetRuns(lf, status, sf)
    \/ \E lf \in LoadFaults : FindJobsBegin(lf)
    \/ \E status \in {"ok", "error"} : FetchPage(status)
    \/ \E sf \in SaveFaults :
          \E louts \in [YarnPositions(FilterFailed(all_jobs)) -> LogOutcomes] :
              FinishJobs(louts, sf)
    \/ \E unreadable \in SUBSET DOMAIN logs : Summarize(unreadable)
    \/ NewPass
    \/ \E d \in {1, CACHE_EXPIRY} : Tick(d)

Spec == Init /\ [][Next]_vars

SpecTally == InitTally /\ [][Next]_vars

NextPages ==
    \/ \E lf \in LoadFaults, status \in {"ok", "error"}, sf \in SaveFaults :
          GetRuns(lf, status, sf)
    \/ \E lf \in LoadFaults : FindJobsBegin(lf)
    \/ \E status \in {"ok", "error"} : FetchPage(status)
    \/ \E sf \in SaveFaults :
          \E louts \in [YarnPositions(FilterFailed(all_jobs)) -> LogOutcomes] :
              FinishJobs(louts, sf)
    \/ \E unreadable \in SUBSET DOMAIN logs : Summarize(unreadable)

SpecPages == InitPages /\ [][NextPages]_vars

\* One pass against a server of either kind; a page loop that can take a turn
\* takes it (the script runs on, and every request is answered).
InitLoop ==
    /\ now = 0
    /\ cacheDir = FALSE
    /\ files = [f \in CacheFiles |-> NoFile]
    /\ logs = NoLogs
    /\ call = NoCall
    /\ nEnv = 0
    /\ srv \in PageServers \cup EndlessServers
    /\ pc = "start"
    /\ PassStart
    /\ passes = 1
    /\ fetchedAt = NoTimes
    /\ logcall = NoLogCall
    /\ procs = NoProcs

SpecLoop ==
    InitLoop /\ [][NextPages]_vars
        /\ WF_vars(\E status \in {"ok", "error"} : FetchPage(status))

(***************************************************************************)
(* Direct calls of the log parser, on any text.                            *)
(***************************************************************************)
InitParser ==
    /\ now = 0
    /\ cacheDir = FALSE
    /\ files = [f \in CacheFiles |-> NoFile]
    /\ logs = NoLogs
    /\ call = NoCall
    /\ nEnv = 0
    /\ srv = NoServer
    /\ pc = "parse"
    /\ outcome = "running"
    /\ runs = <<>>
    /\ idx = 1
    /\ jobs_cache = EmptyDict
    /\ page = 1
    /\ all_jobs = <<>>
    /\ reqs = <<>>
    /\ ret = NoRet
    /\ job_failure_counts = NoCounts
    /\ visited = <<>>
    /\ failure_data = <<>>
    /\ heatmap = FALSE
    /\ test_failure_counts = NoCounts
    /\ passes = 0
    /\ log_content \in Texts
    /\ failures = <<>>
    /\ requests = <<>>
    /\ fetchedAt = NoTimes
    /\ logcall = NoLogCall
    /\ procs = NoProcs

\* parse_test_failures(log_content) returns list(set(failures)).
Parse(result) ==
    /\ pc = "parse"
    /\ result \in ListsOf(ParseTestFailures(log_content))
    /\ failures' = result
    /\ pc' = "parsed"
    /\ UNCHANGED <<now, storeVars, call, nEnv, srv, outcome, runs, idx, jobs_cache,
                   page, all_jobs, reqs, ret, job_failure_counts, visited,
                   failure_data, heatmap, test_failure_counts, passes, log_content,
                   requests, fetchedAt, callVars>>

NextParser ==
    \E result \in ListsOf(ParseTestFailures(log_content)) : Parse(result)

SpecParser == InitParser /\ [][NextParser]_vars

(***************************************************************************)
(* Direct calls of get_job_logs, for two jobs, at any time.                *)
(***************************************************************************)
LogJobs == {1031, 1032}

InitLogs ==
    /\ now = 0
    /\ cacheDir \in BOOLEAN
    /\ files = [f \in CacheFiles |-> NoFile]
    /\ call = NoCall
    /\ nEnv = 0
    /\ logs = NoLogs
    /\ srv = NoServer
    /\ pc = "off"
    /\ PassStart
    /\ passes = 0
    /\ fetchedAt = NoTimes
    /\ logcall = NoLogCall
    /\ procs = NoProcs

LogsCall(job_id, o) ==
    LET st == GetJobLogs([dir |-> cacheDir, logs |-> logs], job_id, now, o)
        r == GetJobLogsResult(logs, job_id, now, o)
    IN  /\ pc = "off"
        /\ cacheDir' = st.dir
        /\ logs' = st.logs
        /\ logcall' = [op |-> "get_job_logs", job_id |-> job_id, o |-> o, t |-> now,
                       before |-> logs, raised |-> r.raised, text |-> r.text]
        /\ UNCHANGED <<now, files, call, nEnv, srv, pc, outcome, runs, idx,
                       jobs_cache, page, all_jobs, reqs, ret, job_failure_counts,
                       visited, failure_data, heatmap, test_failure_counts, passes,
                       parserVars, requests, fetchedAt, procs>>

NextLogs ==
    \/ \E job_id \in LogJobs, o \in LogOutcomes : LogsCall(job_id, o)
    \/ \E d \in {1, CACHE_EXPIRY} : Tick(d)

SpecLogs == InitLogs /\ [][NextLogs]_vars

(***************************************************************************)
(* Two processes that call find_failed_jobs at the same time, each for a   *)
(* run of its own, on one cache directory.  A call reads the job map in    *)
(* one step and, on a miss, fetches the jobs and writes the map in a later *)
(* one; the steps of the two calls interleave freely.                      *)
(***************************************************************************)
RaceProcs == {1, 2}

RaceServer ==
    [runs |-> <<Run(201, 1), Run(202, 1)>>,
     jobs |-> (201 :> <<Job(2011, "build", PyStr("failure"))>>)
              @@ (202 :> <<Job(2021, "lint", PyStr("failure")),
                           Job(2022, "build", PyStr("success"))>>)]

\* A job map that was persisted by an earlier call, for another run.
EarlierMap == PyDict(<<PyStr("200")>>, <<PyList(<<>>)>>)

\* The number of reads and writes of the job map done so far.  Each process
\* records the order of its read (loadedN) and of its write (savedN) among
\* them, and what it read: the file as it was (fileAtLoad), when (tLoad) and
\* with what I/O error (lf).
RaceEvents ==
    Cardinality({q \in RaceProcs : procs[q].loadedN > 0})
        + Cardinality({q \in RaceProcs : procs[q].savedN > 0})

InitRace ==
    /\ now = 0
    /\ cacheDir = TRUE
    /\ files \in {[f \in CacheFiles |-> NoFile],
                  [f \in CacheFiles |->
                      IF f = JOBS_CACHE_FILE THEN Envelope(0, Encode(EarlierMap))
                      ELSE NoFile]}
    /\ call = NoCall
    /\ nEnv = 0
    /\ logs = NoLogs
    /\ srv = RaceServer
    /\ pc = "off"
    /\ PassStart
    /\ passes = 0
    /\ fetchedAt = NoTimes
    /\ logcall = NoLogCall
    /\ procs = [q \in RaceProcs |->
                  [pc |-> "start", run_id |-> 200 + q, cache |-> EmptyDict,
                   loadedN |-> 0, savedN |-> 0, saved |-> FALSE,
                   lf |-> "none", tLoad |-> 0, fileAtLoad |-> NoFile]]

\* find_failed_jobs lines 113-118 in process q: the map is loaded; the call
\* ends if load_cache raised or the run is in the map.
RaceLoad(q, lf) ==
    LET r == LoadResult(files[JOBS_CACHE_FILE], now, lf)
        cache == OrEmptyDict(r.val)
    IN  /\ procs[q].pc = "start"
        /\ LoadFaultPossible(cacheDir, files[JOBS_CACHE_FILE], lf)
        /\ nEnv + FaultCount(<<lf>>) <= MaxEnv
        /\ nEnv' = nEnv + FaultCount(<<lf>>)
        /\ procs' = [procs EXCEPT ![q] =
              [@ EXCEPT !.pc = IF r.raised \/ HasKey(cache, IntToStr(procs[q].run_id))
                                THEN "done" ELSE "loaded",
                        !.cache = cache,
                        !.loadedN = RaceEvents + 1,
                        !.lf = lf,
                        !.tLoad = now,
                        !.fileAtLoad = files[JOBS_CACHE_FILE]]]
        /\ UNCHANGED <<now, storeVars, call, srv, pc, outcome, runs, idx, jobs_cache,
                       page, all_jobs, reqs, ret, job_failure_counts, visited,
                       failure_data, heatmap, test_failure_counts, passes,
                       parserVars, requests, fetchedAt, logcall>>

\* find_failed_jobs lines 120-157 in process q: the jobs are requested (they
\* fit one page), the failed ones kept, their logs retrieved, and the map
\* that was loaded is saved with the entry of the run added.
RaceFetchSave(q, status, sf) ==
    LET run_id == procs[q].run_id
        failed == FilterFailed(ServerPage(srv.jobs[run_id], 1))
        st == FetchLogs([dir |-> cacheDir, logs |-> logs], failed, 1, now, <<>>)
        map == DictPut(procs[q].cache, PyStr(IntToStr(run_id)), PyList(failed))
        dirAfter == SaveCacheDir(st.dir, sf)
    IN  /\ procs[q].pc = "loaded"
        /\ SaveFaultPossible(st.dir, sf)
        /\ Raises(status) => sf = "none"
        /\ nEnv + FaultCount(<<sf>>) <= MaxEnv
        /\ nEnv' = nEnv + FaultCount(<<sf>>)
        /\ IF Raises(status)
           THEN /\ procs' = [procs EXCEPT ![q] = [@ EXCEPT !.pc = "done"]]
                /\ UNCHANGED storeVars
           ELSE /\ logs' = st.logs
                /\ cacheDir' = dirAfter
                /\ files' = [files EXCEPT ![JOBS_CACHE_FILE] =
                                SaveCacheFile(@, dirAfter, map, now, sf)]
                /\ procs' = [procs EXCEPT ![q] =
                      [@ EXCEPT !.pc = "done",
                                !.cache = map,
                                !.savedN = RaceEvents + 1,
                                !.saved = SaveSucceeded(dirAfter, map, sf)]]
        /\ UNCHANGED <<now, call, srv, pc, outcome, runs, idx, jobs_cache, page,
                       all_jobs, reqs, ret, job_failure_counts, visited,
                       failure_data, heatmap, test_failure_counts, passes,
                       parserVars, requests, fetchedAt, logcall>>

NextRace ==
    \/ \E q \in RaceProcs, lf \in LoadFaults : RaceLoad(q, lf)
    \/ \E q \in RaceProcs, status \in {"ok", "error"}, sf \in SaveFaults :
          RaceFetchSave(q, status, sf)
    \/ \E d \in {1, CACHE_EXPIRY} : Tick(d)

SpecRace == InitRace /\ [][NextRace]_vars

(***************************************************************************)
(* Properties of the cache store (under SpecCache).                        *)
(***************************************************************************)

\* A step in which load_cache is called on the key of the save_cache call
\* that came right before it (time may have passed in between).
LoadAfterSave == call.op = "save" /\ call'.op = "load" /\ call'.key = call.key

\* The save_cache call recorded in c persisted its entry.
Persisted(c) == c.op = "save" /\ c.fault = "none" /\ JsonSerializable(c.arg)

\* C1 as stated: for every key and every payload json.dump accepts, a
\* save_cache that persists followed by a load_cache that reads, no later
\* than CACHE_EXPIRY seconds after the save, returns the payload unchanged.
C1_RoundTripAnySerializable ==
    [][ (LoadAfterSave /\ Persisted(call) /\ call'.fault = "none"
            /\ call'.t - call.t <= CACHE_EXPIRY)
        => (~call'.raised /\ call'.ret = call.arg) ]_vars

\* C1 amended: the round trip returns the payload unchanged for every payload
\* that is a JSON value (lists and string-keyed dicts of JSON values), whatever
\* the file held before the save.
C1_RoundTripJsonValue ==
    [][ (LoadAfterSave /\ Persisted(call) /\ IsJsonValue(call.arg)
            /\ call'.fault = "none" /\ call'.t - call.t <= CACHE_EXPIRY)
        => (~call'.raised /\ call'.ret = call.arg) ]_vars

\* C1 witness: a load returned, a positive time after the save that wrote it,
\* the dict saved under a key that held something else before.
C1_Witness ==
    /\ call.op = "load" /\ call.fault = "none" /\ ~call.raised
    /\ call.ret = PyDict(<<PyStr("101")>>, <<PyList(<<PyStr("build")>>)>>)
    /\ files[call.key].st = "ok"
    /\ call.t > files[call.key].ts
    /\ files[call.key].ts > 0

\* C2: load_cache on a readable, well-formed entry returns the stored payload
\* when now - timestamp <= CACHE_EXPIRY, the age equal to the window included,
\* and None for every greater age.
C2_Expiry ==
    (call.op = "load" /\ call.fault = "none" /\ files[call.key].st = "ok")
    => LET f == files[call.key]
       IN  /\ ~call.raised
           /\ call.t - f.ts <= CACHE_EXPIRY => call.ret = Decode(f.data)
           /\ call.t - f.ts > CACHE_EXPIRY => call.ret = PyNone

\* C2 witness: a load at the age CACHE_EXPIRY exactly, which returned the entry.
C2_Witness ==
    /\ call.op = "load" /\ call.fault = "none"
    /\ files[call.key].st = "ok"
    /\ call.t - files[call.key].ts = CACHE_EXPIRY
    /\ call.ret = PyList(<<PyInt(1), PyStr("a")>>)

\* C8: a save_cache called while the cache directory does not exist, and that
\* meets no I/O error, creates the directory and writes the entry, and a
\* load_cache of the same key at the same time returns what was saved (the
\* payload itself when it is a JSON value).
C8_SaveCreatesCacheDir ==
    [][ /\ (call'.op = "save" /\ call' # call /\ ~call'.dirBefore /\ Persisted(call'))
            => (cacheDir' /\ files'[call'.key] = Envelope(call'.t, Encode(call'.arg)))
        /\ (LoadAfterSave /\ ~call.dirBefore /\ Persisted(call)
               /\ call'.fault = "none" /\ call'.t = call.t)
            => /\ ~call'.raised
               /\ call'.ret = Decode(Encode(call.arg))
               /\ IsJsonValue(call.arg) => call'.ret = call.arg ]_vars

\* C8 witness: a save made without a cache directory has created it and
\* written its entry.
C8_Witness ==
    /\ call.op = "save" /\ ~call.dirBefore /\ Persisted(call)
    /\ cacheDir
    /\ files[call.key].st = "ok"

\* C10 as stated: after a save_cache that failed, load_cache returns what it
\* would have returned at that time had save_cache not been called.
C10_FailedSaveAsIfNotCalled ==
    [][ (LoadAfterSave /\ ~Persisted(call))
        => [raised |-> call'.raised, val |-> call'.ret]
              = LoadResult(call.before, call'.t, call'.fault) ]_vars

(***************************************************************************)
(* Properties of find_failed_jobs (under SpecPages) and of main (under     *)
(* Spec).                                                                  *)
(***************************************************************************)

\* The reviewed call of find_failed_jobs is a miss whose page loop is running,
\* has ended, or was aborted by a failed request: reqs and all_jobs are the
\* requests and the jobs of the run main is checking.
InFetch ==
    \/ pc \in {"page", "filter"}
    \/ pc = "done" /\ outcome = "http_error" /\ reqs # <<>>

\* find_failed_jobs has returned from a miss and main has not called it again:
\* reqs and all_jobs are still those of the run ret.run_id.
AfterMiss ==
    /\ ret.how = "miss"
    /\ pc = "loop" \/ (pc = "done" /\ outcome # "http_error")

\* C3: on a miss, for a job list of N full pages of per_page jobs and R < per_page
\* more, the pages requested are 1, 2, ... in order and never go beyond page
\* N+1, the first with fewer than per_page jobs; when the loop has ended the
\* pages 1..N+1 have been requested and exactly the N*per_page + R jobs of the
\* list have been accumulated, unfiltered.
C3_PaginationComplete ==
    LET id == IF InFetch THEN RunId ELSE ret.run_id
        L == Len(srv.jobs[id])
        N == L \div per_page
        R == L % per_page
    IN  (InFetch \/ AfterMiss) =>
            /\ reqs = [i \in 1..Len(reqs) |-> i]
            /\ Len(reqs) <= N + 1
            /\ (pc = "filter" \/ AfterMiss) =>
                  /\ Len(reqs) = N + 1
                  /\ Len(all_jobs) = N * per_page + R
                  /\ all_jobs = srv.jobs[id]

\* C3 witness: the loop has ended on a list of two full pages and per_page - 1
\* jobs, after three requests.
C3_Witness ==
    /\ pc = "filter"
    /\ Len(srv.jobs[RunId]) = 2 * per_page + (per_page - 1)
    /\ reqs = <<1, 2, 3>>
    /\ Len(all_jobs) = 3 * per_page - 1

\* res is all without the jobs whose conclusion is not "failure": the k-th
\* failed job of all is res[k], and res holds nothing else.
IsFailuresOf(res, all) ==
    LET F == {j \in DOMAIN all : Get(all[j], "conclusion") = PyStr("failure")}
    IN  /\ Len(res) = Cardinality(F)
        /\ \A j \in F : res[Cardinality({i \in F : i <= j})] = all[j]

\* C4: on a miss, the list find_failed_jobs returns holds exactly the fetched
\* jobs whose conclusion is "failure", each once and in the order of the pages,
\* and when the save persisted the job map holds that list under the run id.
C4_FilterCorrect ==
    AfterMiss =>
        /\ IsFailuresOf(ret.jobs, all_jobs)
        /\ ret.saved =>
              /\ files[JOBS_CACHE_FILE].st = "ok"
              /\ LET map == Decode(files[JOBS_CACHE_FILE].data)
                 IN  /\ HasKey(map, IntToStr(ret.run_id))
                     /\ Get(map, IntToStr(ret.run_id)) = PyList(ret.jobs)

\* C4 witness: a miss returned and saved some but not all of the jobs fetched,
\* which had cancelled and unfinished jobs among them.
C4_Witness ==
    /\ AfterMiss
    /\ ret.saved
    /\ Len(ret.jobs) > 1
    /\ Len(ret.jobs) < Len(all_jobs)
    /\ \E j \in DOMAIN all_jobs : Get(all_jobs[j], "conclusion") = PyNone
    /\ \E j \in DOMAIN all_jobs : Get(all_jobs[j], "conclusion") = PyStr("cancelled")

\* The pass has ended without a pass-aborting error.
PassCompleted == pc = "done" /\ outcome \in {"summary", "no_failures"}

\* The failed jobs named n that find_failed_jobs returned in this pass, and
\* those the server holds for the runs of the run list.
ReturnedNamed(n) ==
    {<<r, i>> \in (DOMAIN visited) \X (1..3) :
        i \in DOMAIN visited[r].jobs /\ Get(visited[r].jobs[i], "name") = PyStr(n)}
ServerFailedNamed(n) ==
    {<<r, i>> \in (DOMAIN runs) \X (1..3) :
        LET jobs == srv.jobs[Get(runs[r], "id").n]
        IN  /\ i \in DOMAIN jobs
            /\ Get(jobs[i], "name") = PyStr(n)
            /\ Get(jobs[i], "conclusion") = PyStr("failure")}
JobNames == {"build", "lint", YARN_JOB}

\* C6: when a pass completes, find_failed_jobs has been called for every run of
\* the run list, and for every job name the tally is the number of failed jobs
\* of that name in the lists returned (from the job cache or from a fetch),
\* which is the number of failed jobs of that name the runs have; a name with
\* no failed job is no key of the tally.
C6_JobTally ==
    PassCompleted =>
        /\ Len(visited) = Len(runs)
        /\ \A n \in JobNames :
              /\ n \in DOMAIN job_failure_counts <=> ReturnedNamed(n) # {}
              /\ n \in DOMAIN job_failure_counts =>
                    job_failure_counts[n] = Cardinality(ReturnedNamed(n))
              /\ Cardinality(ReturnedNamed(n)) = Cardinality(ServerFailedNamed(n))
        /\ DOMAIN job_failure_counts \subseteq JobNames

\* C6 witness: the runs 101 and 102, the run 102 newer and alone in having a
\* failed job, "build": the pass ends with the tally {"build": 1}, the run 102
\* visited first.
C6_Witness ==
    /\ PassCompleted
    /\ srv.runs = <<Run(101, 1), Run(102, 2)>>
    /\ job_failure_counts = ("build" :> 1)
    /\ visited[1].id = 102
    /\ visited[2].id = 101

\* C7: in every pass the run list, fetched or cached, is in non-increasing
\* created_at order and holds each run of the server once; main calls
\* find_failed_jobs on its runs in that order, on each once, and on all of
\* them when the pass completes.
C7_NewestFirst ==
    pc \in {"loop", "page", "filter", "done"} =>
        /\ \A i, j \in DOMAIN runs :
              i < j => Get(runs[i], "created_at").n >= Get(runs[j], "created_at").n
        /\ Len(visited) <= Len(runs)
        /\ \A i \in DOMAIN visited : visited[i].id = Get(runs[i], "id").n
        /\ pc # "done" \/ PassCompleted =>
              /\ Len(runs) = Len(srv.runs)
              /\ {runs[i] : i \in DOMAIN runs} = {srv.runs[i] : i \in DOMAIN srv.runs}
        /\ PassCompleted => Len(visited) = Len(runs)

\* C7 witness: a second pass, one second after the first and with no I/O error
\* in either, so that its run list came from the cache, has visited the three
\* runs the server listed out of order.
C7_Witness ==
    /\ PassCompleted
    /\ passes = 2
    /\ now = 1
    /\ nEnv = 1
    /\ files[WORKFLOW_CACHE_FILE] = Envelope(0, Encode(PyList(runs)))
    /\ srv.runs = <<Run(102, 2), Run(101, 1), Run(103, 2)>>
    /\ Len(visited) = 3

\* C9 as stated: cache I/O errors are never fatal, so a pass is only ever
\* aborted by a failed request to the API.
C9_CacheErrorsNeverFatal == outcome # "error"

(***************************************************************************)
(* Properties of the log parser (under SpecParser).                        *)
(***************************************************************************)

\* line[i..i+5] is the marker " FAIL ".
MarkerAt(line, i) ==
    i + 5 <= Len(line) /\ \A k \in 1..6 : line[i + k - 1] = FAIL_MARKER[k]

\* line[i..j] is a bracketed package: "[", "@aztec/", one or more characters
\* of a package name, "]".
BracketedPackage(line, i, j) ==
    /\ i + 9 <= j /\ j <= Len(line)
    /\ line[i] = "[" /\ line[j] = "]"
    /\ \A k \in 1..7 : line[i + k] = AZTEC[k]
    /\ \A k \in (i + 8)..(j - 1) : PackageChar(line[k])

\* line[i..j] is a path ending in ".test.ts": one or more path characters,
\* then the suffix.
TestPath(line, i, j) ==
    /\ i + 8 <= j /\ j <= Len(line)
    /\ \A k \in 1..8 : line[j - 8 + k] = TEST_TS[k]
    /\ \A k \in i..(j - 8) : PathChar(line[k])

\* The line has the marker, a bracketed package and a test path.
Qualifies(line) ==
    /\ \E i \in DOMAIN line : MarkerAt(line, i)
    /\ \E i, j \in DOMAIN line : BracketedPackage(line, i, j)
    /\ \E i, j \in DOMAIN line : TestPath(line, i, j)

\* The record "{package} ({file})" of a qualifying line: the package without
\* its brackets and the path, each the first of the line (the path as long
\* as it can be from where it starts).
RecordOf(line) ==
    LET P == {ij \in (DOMAIN line) \X (DOMAIN line) : BracketedPackage(line, ij[1], ij[2])}
        F == {ij \in (DOMAIN line) \X (DOMAIN line) : TestPath(line, ij[1], ij[2])}
        p == CHOOSE ij \in P : \A o \in P : ij[1] <= o[1]
        f == CHOOSE ij \in F : \A o \in F : ij[1] <= o[1]
    IN  SubSeq(line, p[1] + 1, p[2] - 1) \o <<" ", "(">>
            \o SubSeq(line, f[1], f[2]) \o <<")">>

QualifyingLines == {line \in Lines : Qualifies(line)}
ExpectedRecord == [line \in QualifyingLines |-> RecordOf(line)]

\* The lines of a text: the stretches between line breaks, the one after the
\* last line break only when it is not empty.
IsLineOf(line, text) ==
    \E a \in 1..(Len(text) + 1) :
        LET b == a + Len(line) - 1
        IN  /\ b <= Len(text)
            /\ a = 1 \/ text[a - 1] = NL
            /\ IF b = Len(text) THEN a <= b ELSE text[b + 1] = NL
            /\ \A k \in a..b : text[k] = line[k - a + 1] /\ text[k] # NL

FailedFetch ==
    /\ Len(requests') = Len(requests) + 1
    /\ requests'[Len(requests')].kind \in {"runs", "jobs"}
    /\ requests'[Len(requests')].status = "error"

\* C11: a non-2xx answer to the run-list request or to a job-list page
\* request ends the pass at once with the one HTTP error; the pass that ended
\* so sends no further request (the failed one is not retried), prints no
\* summary and no "no failed jobs" message, and writes no heatmap.
C11_HttpErrorAborts ==
    /\ [][ FailedFetch => (pc' = "done" /\ outcome' = "http_error") ]_vars
    /\ [][ (outcome = "http_error" /\ passes' = passes) =>
              (requests' = requests /\ outcome' = outcome /\ heatmap' = heatmap) ]_vars
    /\ [](outcome = "http_error" =>
              /\ pc = "done"
              /\ ~heatmap
              /\ test_failure_counts = NoCounts
              /\ requests # <<>>
              /\ requests[Len(requests)].status = "error"
              /\ \A i \in 1..(Len(requests) - 1) :
                    requests[i].kind \in {"runs", "jobs"} => requests[i].status = "ok")

\* C11 witness: a pass was aborted by the job-list request of its third run,
\* after failed jobs of an earlier run had been tallied.
C11_Witness ==
    /\ outcome = "http_error"
    /\ Len(visited) = 2
    /\ job_failure_counts # NoCounts
    /\ requests[Len(requests)].kind = "jobs"
    /\ requests[Len(requests)].status = "error"

(***************************************************************************)
(* Properties of the log retrieval of find_failed_jobs (under Spec).       *)
(***************************************************************************)

\* The requests the step has added to those of the pass.
NewRequests == SubSeq(requests', Len(requests) + 1, Len(requests'))

\* The positions in the list `failed` of the jobs named yarn-project-test
\* that have no fresh log file.
LogsWanted(failed) ==
    {i \in YarnPositions(failed) : ~HasFreshLog(logs, Get(failed[i], "id").n, now)}

\* C12: on a miss, when the page loop is over, find_failed_jobs asks for the
\* log of every failed job named yarn-project-test that has no fresh log file,
\* in list order and whatever the outcome for the jobs before it; every log
\* that was delivered is written; the complete list of failed jobs is stored
\* in the job map when the save persists, and returned to main, which goes on
\* with the pass.
C12_LogFailureIsolated ==
    [][ pc = "filter" =>
          LET failed == FilterFailed(all_jobs)
              wanted == LogsWanted(failed)
              new == NewRequests
          IN  /\ pc' = "loop" /\ outcome' = "running"
              /\ ret'.how = "miss" /\ ret'.jobs = failed
              /\ Len(new) = Cardinality(wanted)
              /\ \A i \in wanted :
                    LET id == Get(failed[i], "id").n
                        k == Cardinality({j \in wanted : j <= i})
                    IN  /\ new[k].kind = "log" /\ new[k].id = id
                        /\ new[k].status = "ok" =>
                              /\ id \in DOMAIN logs'
                              /\ logs'[id] = [mtime |-> now, text |-> LogTextOf(id)]
              /\ ret'.saved =>
                    /\ files'[JOBS_CACHE_FILE].st = "ok"
                    /\ Get(Decode(files'[JOBS_CACHE_FILE].data), IntToStr(ret'.run_id))
                          = PyList(failed) ]_vars

\* C12 witness: the failed jobs of a run were returned and stored although the
\* log retrieval of the first of them had failed, and the log of a later one
\* was retrieved after that failure.
C12_Witness ==
    /\ pc = "loop" /\ outcome = "running"
    /\ ret.how = "miss" /\ ret.saved /\ Len(ret.jobs) >= 4
    /\ requests[Len(requests) - 1] = Request("log", 101001, 0, "failed")
    /\ requests[Len(requests)] = Request("log", 101101, 0, "ok")
    /\ DOMAIN logs = {101101}

(***************************************************************************)
(* Properties of get_job_logs (under SpecLogs).                            *)
(***************************************************************************)

\* The latest call found no fresh log file for its job.
CalledWithoutFreshLog ==
    /\ logcall.op = "get_job_logs"
    /\ ~HasFreshLog(logcall.before, logcall.job_id, logcall.t)

\* The call persisted and returned the text of the redirect target.
LogDelivered ==
    /\ logcall.raised = "none"
    /\ logcall.text = LogTextOf(logcall.job_id)
    /\ logcall.job_id \in DOMAIN logs
    /\ logs[logcall.job_id] = [mtime |-> logcall.t, text |-> logcall.text]

\* C13 as stated: without a fresh log file, the text is persisted and
\* returned only if the log endpoint answers 302, and for every other status
\* code the call fails with the "expected redirect" exception and leaves the
\* log files as they were.
C13_AnyOtherStatusUnexpected ==
    CalledWithoutFreshLog =>
        /\ LogDelivered => logcall.o = "redirect_ok"
        /\ logcall.o \in {"not_redirect", "http_error"} =>
              logcall.raised = "Exception" /\ logs = logcall.before

\* C13 amended: without a fresh log file, the text is persisted and returned
\* only if the log endpoint answers 302 (and the download succeeds); a non-2xx
\* answer of the endpoint or of the download fails with HTTPError, any other
\* answer of the endpoint that is not 302 with the "expected redirect"
\* exception; and in each of these failures the log files are as they were.
C13_LogProtocol ==
    CalledWithoutFreshLog =>
        /\ LogDelivered <=> logcall.o = "redirect_ok"
        /\ logcall.o = "not_redirect" =>
              logcall.raised = "Exception" /\ logs = logcall.before
        /\ logcall.o \in {"http_error", "download_error"} =>
              logcall.raised = "HTTPError" /\ logs = logcall.before

\* C13 witness: the endpoint answered something other than a redirect for a
\* job whose log file had expired; the call failed and the file is as it was.
C13_Witness ==
    /\ CalledWithoutFreshLog
    /\ logcall.o = "not_redirect"
    /\ logcall.raised = "Exception"
    /\ logcall.job_id \in DOMAIN logcall.before
    /\ logs = logcall.before

(***************************************************************************)
(* Properties of the persisted job map (under Spec).                       *)
(***************************************************************************)

\* The run ids that are keys of the job map a file holds (none when the file
\* is absent or is no JSON text).
PersistedKeys(file) ==
    IF file.st = "ok" THEN {file.data.keys[i].s : i \in DOMAIN file.data.keys} ELSE {}

DictKeys(d) == {d.keys[i].s : i \in DOMAIN d.keys}

JobCacheHit == pc = "loop" /\ Len(visited') = Len(visited) + 1 /\ ret'.how = "hit"

\* C15 as stated: a job list returned from the job cache was fetched from the
\* remote API at most CACHE_EXPIRY seconds before the call that returns it.
C15_HitIsFresh ==
    [][ JobCacheHit =>
          /\ ret'.run_id \in DOMAIN fetchedAt
          /\ now - fetchedAt[ret'.run_id] <= CACHE_EXPIRY ]_vars

(***************************************************************************)
(* Properties of concurrent find_failed_jobs calls (under SpecRace).       *)
(***************************************************************************)

\* Both calls missed and saved, q last, and each had loaded the map before
\* either saved.
BothLoadedBeforeEitherSaved(p, q) ==
    /\ p # q
    /\ procs[p].pc = "done" /\ procs[q].pc = "done"
    /\ procs[p].saved /\ procs[q].saved
    /\ procs[p].savedN < procs[q].savedN
    /\ procs[p].loadedN < procs[p].savedN
    /\ procs[q].loadedN < procs[p].savedN

\* The cache key of the run of process q.
RaceKey(q) == IntToStr(200 + q)

\* C16: when two processes call find_failed_jobs for different runs and both
\* load the job map before either saves, the map persisted in the end is the
\* one the last saver had loaded plus its own entry: the entry the first
\* saver had written is lost.
C16_LostUpdate ==
    \A p, q \in DOMAIN procs :
        BothLoadedBeforeEitherSaved(p, q) =>
            /\ files[JOBS_CACHE_FILE].st = "ok"
            /\ RaceKey(p) \notin PersistedKeys(files[JOBS_CACHE_FILE])
            /\ RaceKey(q) \in PersistedKeys(files[JOBS_CACHE_FILE])
            /\ Decode(files[JOBS_CACHE_FILE].data) = procs[q].cache
            /\ procs[q].lf = "none" =>
                  PersistedKeys(files[JOBS_CACHE_FILE]) =
                      {RaceKey(q)} \cup
                      (IF procs[q].tLoad - procs[q].fileAtLoad.ts <= CACHE_EXPIRY
                       THEN PersistedKeys(procs[q].fileAtLoad) ELSE {})

\* C16 witness: both calls have saved, each having loaded the fresh map of an
\* earlier call before either saved; the persisted map holds that earlier
\* entry and the entry of one of the two runs only.
C16_Witness ==
    /\ \E p, q \in DOMAIN procs : BothLoadedBeforeEitherSaved(p, q)
    /\ Cardinality(PersistedKeys(files[JOBS_CACHE_FILE])) = 2
    /\ "200" \in PersistedKeys(files[JOBS_CACHE_FILE])

(***************************************************************************)
(* Properties of the page loop (under SpecLoop).                           *)
(***************************************************************************)

\* The step is a turn of the page loop whose request was answered 2xx.
PageAnswered ==
    /\ pc = "page"
    /\ Len(requests') = Len(requests) + 1
    /\ requests'[Len(requests')].status = "ok"

\* C17: a turn of the page loop ends the loop exactly when the page it got
\* has fewer than per_page jobs, or when the request failed; so the loop ends
\* on every server of finitely many jobs, and on a server that has a full page
\* for every page number each turn that gets an answer is followed by one
\* more: no page count ends the loop.
C17_LoopEndsOnShortPage ==
    /\ [][ PageAnswered =>
             /\ pc' = "filter" <=> Len(ServerPage(srv.jobs[RunId], page)) < per_page
             /\ pc' = "page" <=> Len(ServerPage(srv.jobs[RunId], page)) = per_page
             /\ pc' = "page" => page' = page + 1 ]_vars
    /\ [][ (pc = "page" /\ pc' # "page" /\ ~PageAnswered) =>
             (pc' = "done" /\ outcome' = "http_error") ]_vars
    /\ [][ (srv \in EndlessServers /\ PageAnswered) => pc' = "page" ]_vars
    /\ (srv \in PageServers => ((pc = "page") ~> (pc # "page")))

\* C17 witness: on the server that always has a full page, the loop has got
\* every page the model follows it through and is still going on.
C17_Witness ==
    /\ srv \in EndlessServers
    /\ pc = "page"
    /\ page = MaxPage + 1
    /\ Len(all_jobs) = MaxPage * per_page

(***************************************************************************)
(* C18.                                                                    *)
(***************************************************************************)
\* The entry of a cache file is readable and at most CACHE_EXPIRY old.
FreshEntry(key) ==
    /\ files[key].st = "ok"
    /\ now - files[key].ts <= CACHE_EXPIRY

\* get_failed_workflow_runs, or find_failed_jobs for the next run, is called
\* and meets no I/O error (time stands still and no fault is counted).
RunsCalled == pc = "start" /\ pc' # "start" /\ nEnv' = nEnv
JobsCalled == pc = "loop" /\ idx <= Len(runs) /\ nEnv' = nEnv

\* C18: a call of get_failed_workflow_runs that finds a fresh run list in the
\* store (an empty list included) returns that list, and a call of
\* find_failed_jobs that finds the run id in the fresh job map (with an empty
\* job list included) returns the list stored under it; neither issues a
\* request to the API, retrieves a log or saves anything.
C18_HitsAreLocal ==
    [][ /\ (RunsCalled /\ FreshEntry(WORKFLOW_CACHE_FILE))
           => /\ pc' = "loop"
              /\ runs' = Decode(files[WORKFLOW_CACHE_FILE].data).items
              /\ requests' = requests
              /\ UNCHANGED storeVars
        /\ (JobsCalled /\ FreshEntry(JOBS_CACHE_FILE)
                /\ HasKey(Decode(files[JOBS_CACHE_FILE].data), RunKey))
           => /\ pc' = "loop"
              /\ ret'.how = "hit"
              /\ ret'.run_id = RunId
              /\ ret'.jobs = Get(Decode(files[JOBS_CACHE_FILE].data), RunKey).items
              /\ requests' = requests
              /\ UNCHANGED storeVars
      ]_vars

\* C18 witness: the second pass has read the run list from the store and takes
\* the empty job list of run 102 from the job map, without any request.
C18_Witness ==
    /\ passes = 2
    /\ pc = "loop"
    /\ FreshEntry(WORKFLOW_CACHE_FILE)
    /\ runs = Decode(files[WORKFLOW_CACHE_FILE].data).items
    /\ ret.how = "hit"
    /\ ret.run_id = 102
    /\ ret.jobs = <<>>
    /\ requests = <<>>

(***************************************************************************)
(* C19.                                                                    *)
(***************************************************************************)
\* main reaches the log scan and ends the pass with its summary.
ScanStep == pc = "loop" /\ pc' = "done" /\ outcome' \in {"summary", "no_failures"}

\* The records parse_test_failures finds in the log file of a job.
ParsedRecords(j) == LogRecords[logs[j].text]
AllParsedRecords == UNION {ParsedRecords(j) : j \in DOMAIN logs}

\* The count of a record in a defaultdict(int) tally.
CountIn(tally, r) == IF r \in DOMAIN tally THEN tally[r] ELSE 0

\* The log scan counted every record once for each log file among `scanned`
\* whose parsed records include it, and nothing else.
TallyIsOver(tally, scanned) ==
    /\ DOMAIN tally \subseteq AllParsedRecords
    /\ \A r \in AllParsedRecords :
          CountIn(tally, r) = Cardinality({j \in scanned : r \in ParsedRecords(j)})

\* C19 as stated: after the run loop test_failure_counts[r] is the number of
\* log files present in the logs directory whose parsed record set contains r.
C19_TallyCoversAllLogs ==
    [][ScanStep => TallyIsOver(test_failure_counts', DOMAIN logs)]_vars

\* C19, amended: after the run loop test_failure_counts[r] is the number of
\* log files that could be read whose parsed record set contains r, whatever
\* their age and whichever pass wrote them: every file of the logs directory
\* when no read fails, and all but the files whose read failed otherwise.  One
\* log file adds at most 1 to a record.
C19_TallyCoversReadableLogs ==
    [][ScanStep =>
          \E skipped \in SUBSET DOMAIN logs :
              /\ Cardinality(skipped) = nEnv' - nEnv
              /\ TallyIsOver(test_failure_counts', DOMAIN logs \ skipped)
      ]_vars

\* C19 witness: a second pass that requested nothing has counted the two log
\* files the first pass wrote a whole expiry window earlier: 2 for the record
\* both have (one of them on two lines), 1 for the record one of them has.
C19_Witness ==
    /\ passes = 2
    /\ pc = "done"
    /\ outcome = "summary"
    /\ requests = <<>>
    /\ DOMAIN logs = {1031, 1032}
    /\ \A j \in DOMAIN logs : now - logs[j].mtime >= CACHE_EXPIRY
    /\ TallyIsOver(test_failure_counts, DOMAIN logs)
    /\ \E r \in DOMAIN test_failure_counts : test_failure_counts[r] = 2
    /\ \E r \in DOMAIN test_failure_counts : test_failure_counts[r] = 1

(***************************************************************************)
(* C20.                                                                    *)
(***************************************************************************)
\* A step of a find_failed_jobs call that has not got past its page loop: the
\* load of the job map that misses, or the answer to a page request.
InPageLoop == pc = "page" \/ (pc = "loop" /\ pc' = "page")

\* C20: a get_failed_workflow_runs or find_failed_jobs call that a non-2xx
\* answer to its run-list or job-list page request aborts has written nothing:
\* no step of the call, from its start to the failed request, changes the
\* cache directory, the run-list file, the job-map file or a log file.
C20_FetchErrorWritesNothing ==
    [][ (FailedFetch \/ InPageLoop) => UNCHANGED storeVars ]_vars

\* C20 witness: the pass was aborted by the job-list request of its third run,
\* 101; the job map persisted holds the entries of the two runs before it and
\* none for 101, and the log file the second run wrote is there.
C20_Witness ==
    /\ outcome = "http_error"
    /\ requests[Len(requests)] = Request("jobs", 101, 1, "error")
    /\ Len(visited) = 2
    /\ PersistedKeys(files[JOBS_CACHE_FILE]) = {"102", "103"}
    /\ files[WORKFLOW_CACHE_FILE].st = "ok"
    /\ 1031 \in DOMAIN logs

====
